---- MODULE Spec2Model ----
(***************************************************************************)
(* Model of API/upload/index.js: the upload handler of nc-media-pipeline.  *)
(*                                                                         *)
(* One process (one Node.js event loop) serves several invocations of the  *)
(* exported handler.  An invocation runs without interruption up to its    *)
(* next network await (authorize, get-upload-URL, email send); other       *)
(* invocations and the clock move while it waits.  The module-level        *)
(* variables b2Auth, b2AuthExpiry and global.reviewData are shared.        *)
(*                                                                         *)
(* Text is a sequence of pieces: the text of a request field is a sequence *)
(* of one-character strings, a literal of a template is one piece.         *)
(* Time is counted in hours.                                               *)
(***************************************************************************)
EXTENDS Integers, Sequences, FiniteSets, TLC

VARIABLES
    now,           \* Date.now(), in hours
    b2Auth,        \* the cached authorization: NoAuth, or the authorize call it came from
    b2AuthExpiry,  \* the recorded expiry of the cache
    reviewData,    \* global.reviewData: review id -> {metadata, files, timestamp}
    reviewIds,     \* how many review ids crypto.randomBytes(16) has produced
    started,       \* how many invocations the runtime has dispatched
    pc,            \* where each invocation is
    req,           \* each invocation's action and request body
    auth,          \* handlePrepareUpload's local auth
    plan,          \* handlePrepareUpload's locals timestamp, fileId, filePath
    rid,           \* sendReviewEmail's local reviewId
    res,           \* context.res
    authCalls,     \* the authorize calls made, in order
    urlCalls,      \* the get-upload-URL calls made, in order
    mails          \* the sgMail.send calls made, in order

vars == <<now, b2Auth, b2AuthExpiry, reviewData, reviewIds, started,
          pc, req, auth, plan, rid, res, authCalls, urlCalls, mails>>

(***************************************************************************)
(* Bounds of the model.                                                    *)
(***************************************************************************)
\* invocations of the handler in one run of the process
MaxInv == 2
\* hours the clock runs on after the first moment a cached authorization can
\* expire
MaxLate == 1
\* longest text of a request field in the path specification
MaxLen == 3

(***************************************************************************)
(* Constants of the program and of its storage provider.                   *)
(***************************************************************************)
\* b2AuthExpiry = Date.now() + (23 * 60 * 60 * 1000), in hours
AUTH_TTL == 23
\* the provider's validity of an authorization, in hours from issuance
PROVIDER_VALIDITY == 24
\* the clock of a process that has just loaded the module
StartTime == 1

RAW == <<"r", "a", "w">>
BOSS_EMAIL == <<"b", "@", "n">>
FROM_EMAIL == <<"workflow@nuculture.com">>
Undefined == <<"undefined">>
NoAuth == 0

Whitespace == {" ", "\t"}

(***************************************************************************)
(* Pure helpers of the handlers.                                           *)
(***************************************************************************)
\* s.split('@')[0]: the text before the first '@', all of s when it has none
RECURSIVE SplitAtFirst(_)
SplitAtFirst(s) ==
    IF s = <<>> \/ Head(s) = "@" THEN <<>>
    ELSE <<Head(s)>> \o SplitAtFirst(Tail(s))

\* the rest of s after its leading whitespace
RECURSIVE SkipWhitespace(_)
SkipWhitespace(s) ==
    IF s # <<>> /\ Head(s) \in Whitespace THEN SkipWhitespace(Tail(s)) ELSE s

\* s.replace(/\s/g, '_'): every whitespace character becomes one '_'
RECURSIVE ReplaceEachWhitespace(_)
ReplaceEachWhitespace(s) ==
    IF s = <<>> THEN <<>>
    ELSE <<IF Head(s) \in Whitespace THEN "_" ELSE Head(s)>>
         \o ReplaceEachWhitespace(Tail(s))

\* s.replace(/\s+/g, '_'): every maximal run of whitespace becomes one '_'
RECURSIVE ReplaceWhitespace(_)
ReplaceWhitespace(s) ==
    IF s = <<>> THEN <<>>
    ELSE IF Head(s) \in Whitespace
         THEN <<"_">> \o ReplaceWhitespace(SkipWhitespace(s))
         ELSE <<Head(s)>> \o ReplaceWhitespace(Tail(s))

\* `${timestamp}_${crypto.randomBytes(4).toString('hex')}`
FileId(timestamp, hex) == <<ToString(timestamp), "_", hex>>

\* the two branches of the path template; a field read through a method
\* (split, replace) throws a TypeError when it is undefined
PathThrows(metadata) ==
    IF metadata.uploadType = RAW
    THEN metadata.editor = Undefined \/ metadata.clientName = Undefined
    ELSE metadata.projectName = Undefined

FilePath(timestamp, fileName, metadata) ==
    IF metadata.uploadType = RAW
    THEN <<"raw_uploads/">> \o SplitAtFirst(metadata.editor) \o <<"/">>
         \o <<ToString(timestamp), "_">> \o ReplaceWhitespace(metadata.clientName)
         \o <<"/">> \o fileName
    ELSE <<"edited_uploads/review/">>
         \o <<ToString(timestamp), "_">> \o ReplaceWhitespace(metadata.projectName)
         \o <<"/">> \o fileName

(***************************************************************************)
(* Requests.  A body, its metadata and its files may each be absent; an    *)
(* absent field of a present object is Undefined.                          *)
(***************************************************************************)
Metadata(t, e, c, p, f, i) ==
    [defined |-> TRUE, uploadType |-> t, editor |-> e, clientName |-> c,
     projectName |-> p, footageType |-> f, instructions |-> i]
NoMetadata ==
    [defined |-> FALSE, uploadType |-> Undefined, editor |-> Undefined,
     clientName |-> Undefined, projectName |-> Undefined,
     footageType |-> Undefined, instructions |-> Undefined]
Files(l) == [defined |-> TRUE, list |-> l]
NoFiles == [defined |-> FALSE, list |-> <<>>]
Body(n, m, fs) == [defined |-> TRUE, fileName |-> n, metadata |-> m, files |-> fs]
NoBody == [defined |-> FALSE, fileName |-> Undefined, metadata |-> NoMetadata,
           files |-> NoFiles]

Jane == <<"j", "@", "x">>
Acme == <<"A", " ", "c">>
Promo == <<"p", "\t", " ", "q">>
Clip == <<"c", ".", "m">>
Wedding == <<"w">>
Notes == <<"n">>
OneFile == Files(<< [fileName |-> Clip, filePath |-> <<"k">>, size |-> 1536] >>)

RawMetadata == Metadata(RAW, Jane, Acme, Undefined, Wedding, Notes)
EditedMetadata == Metadata(<<"e", "d">>, Undefined, Acme, Promo, Undefined, Undefined)

\* a raw upload that names no editor
RawNoEditor == Metadata(RAW, Undefined, Acme, Undefined, Wedding, Notes)
\* a raw upload without instructions
RawNoInstructions == Metadata(RAW, BOSS_EMAIL, Acme, Promo, Wedding, Undefined)
\* no uploadType, and the fields of both variants
Untyped == Metadata(Undefined, Jane, Acme, Promo, Wedding, Notes)
\* an uploadType that is neither 'raw' nor 'edited', and no projectName
Unknown == Metadata(<<"R", "A", "W">>, Jane, Acme, Undefined, Wedding, Notes)

\* context.bindingData.action || '', and req.body
Request(a, b) == [action |-> a, body |-> b]

PrepareRequests ==
    { Request("prepare", NoBody),
      Request("prepare", Body(Clip, RawNoEditor, NoFiles)),
      Request("prepare", Body(Clip, RawMetadata, NoFiles)) }

CompleteRequests ==
    { Request("complete", NoBody),
      Request("complete", Body(Undefined, RawMetadata, OneFile)),
      Request("complete", Body(Undefined, RawNoInstructions, OneFile)),
      Request("complete", Body(Undefined, EditedMetadata, OneFile)),
      Request("complete", Body(Undefined, Untyped, OneFile)),
      Request("complete", Body(Undefined, Unknown, OneFile)) }

OtherRequests ==
    { Request("", Body(Clip, RawMetadata, OneFile)),
      Request("review", NoBody) }

Requests == PrepareRequests \cup CompleteRequests \cup OtherRequests

\* crypto.randomBytes(4).toString('hex')
HexValues == {"0a1b2c3d", "ffffffff"}
OneHex == {"0a1b2c3d"}

Inv == 1 .. MaxInv

NoRequest == [action |-> "", body |-> NoBody]
NoPlan == [timestamp |-> 0, fileId |-> <<>>, filePath |-> <<>>]
NoResponse == [status |-> 0, body |-> [error |-> ""]]

Init ==
    /\ now = StartTime
    /\ b2Auth = NoAuth
    /\ b2AuthExpiry = 0
    /\ reviewData = <<>>
    /\ reviewIds = 0
    /\ started = 0
    /\ pc = [p \in Inv |-> "idle"]
    /\ req = [p \in Inv |-> NoRequest]
    /\ auth = [p \in Inv |-> NoAuth]
    /\ plan = [p \in Inv |-> NoPlan]
    /\ rid = [p \in Inv |-> 0]
    /\ res = [p \in Inv |-> NoResponse]
    /\ authCalls = <<>>
    /\ urlCalls = <<>>
    /\ mails = <<>>

(***************************************************************************)
(* The outermost catch of module.exports: a throw anywhere in a handler    *)
(* ends the invocation with a 500 carrying the error's message.            *)
(***************************************************************************)
\* a catch that answers 200
Swallowed(p, message) ==
    /\ pc' = [pc EXCEPT ![p] = "done"]
    /\ res' = [res EXCEPT ![p] =
                  [status |-> 200, body |-> [success |-> TRUE, message |-> message]]]

Caught(p, message) ==
    /\ pc' = [pc EXCEPT ![p] = "done"]
    /\ res' = [res EXCEPT ![p] = [status |-> 500, body |-> [error |-> message]]]

\* the call an invocation is waiting for: the last one it made
PendingCall(calls, p) ==
    CHOOSE k \in DOMAIN calls : calls[k].by = p /\ calls[k].status = "pending"

(***************************************************************************)
(* authorizeB2 and handlePrepareUpload.                                    *)
(***************************************************************************)
\* the answer of b2_get_upload_url number k: uploadResponse.data
UploadData(k) ==
    [uploadUrl |-> <<"uploadUrl", ToString(k)>>,
     authorizationToken |-> <<"uploadToken", ToString(k)>>]

\* the answer of b2_authorize_account number k: response.data
AuthorizationData(k) ==
    [apiUrl |-> <<"apiUrl", ToString(k)>>,
     authorizationToken |-> <<"accountToken", ToString(k)>>]

\* the comparison with the expiry the wrong way round
CacheUsableAfterExpiry == b2Auth # NoAuth /\ now > b2AuthExpiry

\* the expiry not looked at
CacheUsableForever == b2Auth # NoAuth

\* if (b2Auth && Date.now() < b2AuthExpiry)
CacheUsable == b2Auth # NoAuth /\ now < b2AuthExpiry

\* the expiry without the margin: the provider's 24 hours
ExpiryAtValidity(t) == t + PROVIDER_VALIDITY

\* the expiry without the clock
ExpiryWithoutNow(t) == AUTH_TTL

\* Date.now() + (23 * 60 * 60 * 1000)
NewExpiry(t) == t + AUTH_TTL

\* handlePrepareUpload from the return of authorizeB2 to the await of the
\* get-upload-URL call, which carries the token of the authorization returned
PrepareContinue(p, body, token, hexes) ==
    /\ auth' = [auth EXCEPT ![p] = token]
    /\ IF ~body.metadata.defined \/ PathThrows(body.metadata)
       THEN /\ Caught(p, "TypeError")
            /\ UNCHANGED <<plan, urlCalls>>
       ELSE /\ \E hex \in hexes :
                plan' = [plan EXCEPT ![p] =
                            [timestamp |-> now,
                             fileId |-> FileId(now, hex),
                             filePath |-> FilePath(now, body.fileName, body.metadata)]]
            /\ urlCalls' = Append(urlCalls,
                                  [by |-> p, status |-> "pending",
                                   apiUrl |-> AuthorizationData(token).apiUrl,
                                   token |-> AuthorizationData(token).authorizationToken])
            /\ pc' = [pc EXCEPT ![p] = "awaitUploadUrl"]
            /\ UNCHANGED res

\* how many authorizations have been stored so far: a call records it when it
\* is made, which names the empty-or-expired episode of the cache it falls in
\* (no call is made while the cache holds an unexpired authorization)
Stores(calls) == Cardinality({k \in DOMAIN calls : calls[k].status = "stored"})

\* handlePrepareUpload up to its first network await
HandlePrepareUpload(p, body, hexes) ==
    /\ IF ~body.defined
       THEN /\ Caught(p, "TypeError")
            /\ UNCHANGED <<auth, plan, urlCalls, authCalls>>
       ELSE IF CacheUsable
       THEN /\ PrepareContinue(p, body, b2Auth, hexes)
            /\ UNCHANGED authCalls
       ELSE /\ authCalls' = Append(authCalls,
                                   [by |-> p, status |-> "pending",
                                    issuedAt |-> 0, storedAt |-> 0,
                                    episode |-> Stores(authCalls)])
            /\ pc' = [pc EXCEPT ![p] = "awaitAuthorize"]
            /\ UNCHANGED <<auth, plan, urlCalls, res>>
    /\ UNCHANGED <<b2Auth, b2AuthExpiry, reviewData, reviewIds, rid, mails>>

(***************************************************************************)
(* handleUploadComplete, sendEditorEmail and sendReviewEmail.              *)
(***************************************************************************)
\* the routing decided by "not 'edited'"
IsNotEdited(metadata) == metadata.uploadType # <<"e", "d">>

\* metadata.uploadType === 'raw'
IsRaw(metadata) == metadata.uploadType = RAW

\* what sendEditorEmail reads through a method before it sends
EditorEmailThrows(body) ==
    \/ body.metadata.editor = Undefined
    \/ ~body.files.defined
    \/ body.metadata.instructions = Undefined

\* what sendReviewEmail reads through a method before it sends
ReviewEmailThrows(body) == ~body.files.defined

EditorMessage(metadata) ==
    [to |-> metadata.editor,
     from |-> FROM_EMAIL,
     subject |-> <<"New Footage: ">> \o metadata.clientName \o <<" - ">>
                 \o metadata.footageType]

ReviewMessage(metadata) ==
    [to |-> BOSS_EMAIL,
     from |-> FROM_EMAIL,
     subject |-> <<"Review Required: ">> \o metadata.projectName]

\* handleUploadComplete up to the await of sgMail.send
HandleUploadComplete(p, body) ==
    /\ IF ~body.defined \/ ~body.metadata.defined
       THEN /\ Caught(p, "TypeError")
            /\ UNCHANGED <<mails, rid, reviewIds>>
       ELSE IF IsRaw(body.metadata)
       THEN IF EditorEmailThrows(body)
            THEN /\ Caught(p, "TypeError")
                 /\ UNCHANGED <<mails, rid, reviewIds>>
            ELSE /\ mails' = Append(mails, [by |-> p, status |-> "pending",
                                            msg |-> EditorMessage(body.metadata)])
                 /\ pc' = [pc EXCEPT ![p] = "awaitSendEditor"]
                 /\ UNCHANGED <<res, rid, reviewIds>>
       ELSE IF ReviewEmailThrows(body)
            THEN /\ Caught(p, "TypeError")
                 /\ UNCHANGED <<mails, rid, reviewIds>>
            ELSE /\ reviewIds' = reviewIds + 1
                 /\ rid' = [rid EXCEPT ![p] = reviewIds + 1]
                 /\ mails' = Append(mails, [by |-> p, status |-> "pending",
                                            msg |-> ReviewMessage(body.metadata)])
                 /\ pc' = [pc EXCEPT ![p] = "awaitSendReview"]
                 /\ UNCHANGED res
    /\ UNCHANGED <<b2Auth, b2AuthExpiry, reviewData, auth, plan, authCalls, urlCalls>>

(***************************************************************************)
(* module.exports: the dispatch on the action.                             *)
(***************************************************************************)
InvalidAction(p) ==
    /\ pc' = [pc EXCEPT ![p] = "done"]
    /\ res' = [res EXCEPT ![p] =
                  [status |-> 400, body |-> [error |-> "Invalid action"]]]
    /\ UNCHANGED <<b2Auth, b2AuthExpiry, reviewData, reviewIds, auth, plan, rid,
                   authCalls, urlCalls, mails>>

\* a switch whose default runs the prepare handler
DispatchDefaultPrepare(p, r, hexes) ==
    IF r.action = "complete" THEN HandleUploadComplete(p, r.body)
    ELSE HandlePrepareUpload(p, r.body, hexes)

Dispatch(p, r, hexes) ==
    IF r.action = "prepare" THEN HandlePrepareUpload(p, r.body, hexes)
    ELSE IF r.action = "complete" THEN HandleUploadComplete(p, r.body)
    ELSE InvalidAction(p)

\* the runtime calls the handler: it runs to its first network await or to its end
Invoke(p, requests, hexes) ==
    /\ pc[p] = "idle"
    /\ p = started + 1
    /\ \E r \in requests :
        /\ req' = [req EXCEPT ![p] = r]
        /\ Dispatch(p, r, hexes)
    /\ started' = started + 1
    /\ UNCHANGED now

(***************************************************************************)
(* The network answers.                                                    *)
(***************************************************************************)
\* the provider handles the authorize request and issues an authorization that
\* is valid from now on
ProviderAuthorizes(p) ==
    /\ pc[p] = "awaitAuthorize"
    /\ \E k \in DOMAIN authCalls :
        /\ authCalls[k].by = p
        /\ authCalls[k].status = "pending"
        /\ authCalls' = [authCalls EXCEPT ![k].status = "issued",
                                          ![k].issuedAt = now]
    /\ UNCHANGED <<now, b2Auth, b2AuthExpiry, reviewData, reviewIds, started,
                   pc, req, auth, plan, rid, res, urlCalls, mails>>

\* the answer of b2_authorize_account arrives: a rejection or a network error
\* throws out of the await, a success runs lines 132-135 and the rest of prepare
AuthorizeResponds(p, hexes) ==
    /\ pc[p] = "awaitAuthorize"
    /\ \E k \in DOMAIN authCalls :
        /\ authCalls[k].by = p
        /\ \/ /\ authCalls[k].status \in {"pending", "issued"}
              /\ authCalls' = [authCalls EXCEPT ![k].status = "failed"]
              /\ Caught(p, "Request failed")
              /\ UNCHANGED <<b2Auth, b2AuthExpiry, auth, plan, urlCalls>>
           \/ /\ authCalls[k].status = "issued"
              /\ authCalls' = [authCalls EXCEPT ![k].status = "stored",
                                                ![k].storedAt = now]
              /\ b2Auth' = k
              /\ b2AuthExpiry' = NewExpiry(now)
              /\ PrepareContinue(p, req[p].body, k, hexes)
    /\ UNCHANGED <<now, reviewData, reviewIds, started, req, rid, mails>>

\* the response with the account's token in place of the upload token
PrepareResponseAccountToken(p, uploadData) ==
    [status |-> 200,
     body |-> [uploadUrl |-> uploadData.uploadUrl,
               authToken |-> AuthorizationData(auth[p]).authorizationToken,
               fileId |-> plan[p].fileId,
               filePath |-> plan[p].filePath]]

\* context.res of a prepare that succeeded
PrepareResponse(p, uploadData) ==
    [status |-> 200,
     body |-> [uploadUrl |-> uploadData.uploadUrl,
               authToken |-> uploadData.authorizationToken,
               fileId |-> plan[p].fileId,
               filePath |-> plan[p].filePath]]

\* b2_get_upload_url answers: lines 84-97
UploadUrlResponds(p) ==
    /\ pc[p] = "awaitUploadUrl"
    /\ LET k == PendingCall(urlCalls, p) IN
        \/ /\ urlCalls' = [urlCalls EXCEPT ![k].status = "failed"]
           /\ Caught(p, "Request failed")
        \/ /\ urlCalls' = [urlCalls EXCEPT ![k].status = "ok"]
           /\ pc' = [pc EXCEPT ![p] = "done"]
           /\ res' = [res EXCEPT ![p] = PrepareResponse(p, UploadData(k))]
    /\ UNCHANGED <<now, b2Auth, b2AuthExpiry, reviewData, reviewIds, started,
                   req, auth, plan, rid, authCalls, mails>>

\* global.reviewData = {} before the entry is written
StoreReviewAfresh(data, id, body) ==
    [i \in {id} |->
        [metadata |-> body.metadata, files |-> body.files, timestamp |-> now]]

\* global.reviewData[reviewId] = { metadata, files, timestamp: Date.now() }
StoreReview(data, id, body) ==
    [i \in DOMAIN data \cup {id} |->
        IF i = id
        THEN [metadata |-> body.metadata, files |-> body.files, timestamp |-> now]
        ELSE data[i]]

Completed(p) ==
    /\ pc' = [pc EXCEPT ![p] = "done"]
    /\ res' = [res EXCEPT ![p] =
                  [status |-> 200,
                   body |-> [success |-> TRUE, message |-> "Notifications sent"]]]

\* sgMail.send answers in sendEditorEmail: line 213, then lines 111-114
SendEditorResponds(p) ==
    /\ pc[p] = "awaitSendEditor"
    /\ LET k == PendingCall(mails, p) IN
        \/ /\ mails' = [mails EXCEPT ![k].status = "failed"]
           /\ Caught(p, "Send failed")
        \/ /\ mails' = [mails EXCEPT ![k].status = "ok"]
           /\ Completed(p)
    /\ UNCHANGED <<now, b2Auth, b2AuthExpiry, reviewData, reviewIds, started,
                   req, auth, plan, rid, authCalls, urlCalls>>

\* sgMail.send answers in sendReviewEmail: lines 302-311, then lines 111-114
SendReviewResponds(p) ==
    /\ pc[p] = "awaitSendReview"
    /\ LET k == PendingCall(mails, p) IN
        \/ /\ mails' = [mails EXCEPT ![k].status = "failed"]
           /\ Caught(p, "Send failed")
           /\ UNCHANGED reviewData
        \/ /\ mails' = [mails EXCEPT ![k].status = "ok"]
           /\ reviewData' = StoreReview(reviewData, rid[p], req[p].body)
           /\ Completed(p)
    /\ UNCHANGED <<now, b2Auth, b2AuthExpiry, reviewIds, started,
                   req, auth, plan, rid, authCalls, urlCalls>>

\* the instants at which the model reads the clock: the start and the hour
\* after it (the margin between AUTH_TTL and PROVIDER_VALIDITY), then every
\* hour from the first possible expiry on
Instants ==
    { t \in StartTime .. (StartTime + AUTH_TTL + MaxLate) :
        \/ t <= StartTime + (PROVIDER_VALIDITY - AUTH_TTL)
        \/ t >= StartTime + AUTH_TTL }

\* time passes
Tick ==
    /\ \E p \in Inv : pc[p] # "done"
    /\ \E t \in Instants : t > now /\ now' = t
    /\ UNCHANGED <<b2Auth, b2AuthExpiry, reviewData, reviewIds, started,
                   pc, req, auth, plan, rid, res, authCalls, urlCalls, mails>>

Next ==
    \/ \E p \in Inv : Invoke(p, Requests, OneHex)
    \/ \E p \in Inv : ProviderAuthorizes(p)
    \/ \E p \in Inv : AuthorizeResponds(p, OneHex)
    \/ \E p \in Inv : UploadUrlResponds(p)
    \/ \E p \in Inv : SendEditorResponds(p)
    \/ \E p \in Inv : SendReviewResponds(p)
    \/ Tick

Spec == Init /\ [][Next]_vars

(***************************************************************************)
(* The path specification: one prepare invocation whose metadata ranges    *)
(* over every short text, so that split and replace meet '@' and runs of   *)
(* whitespace in every position.                                           *)
(***************************************************************************)
Texts(alphabet) == UNION { [1 .. n -> alphabet] : n \in 0 .. MaxLen }

PathMetadata ==
    { Metadata(RAW, e, c, p, Wedding, Notes) :
        e \in Texts({"a", "@"}) \cup {Undefined},
        c \in Texts({"a", " ", "\t"}) \cup {Undefined},
        p \in {Undefined, Promo} }
    \cup
    { Metadata(t, ec[1], ec[2], p, Undefined, Undefined) :
        t \in {<<"e", "d">>, <<"R", "A", "W">>, Undefined},
        ec \in {<<Undefined, Undefined>>, <<Jane, Acme>>},
        p \in Texts({"a", " ", "\t"}) \cup {Undefined} }

PathRequests ==
    { Request("prepare", Body(n, m, NoFiles)) :
        n \in {Clip, Undefined}, m \in PathMetadata \cup {NoMetadata} }

NextPath ==
    \/ Invoke(1, PathRequests, HexValues)
    \/ ProviderAuthorizes(1)
    \/ AuthorizeResponds(1, HexValues)
    \/ UploadUrlResponds(1)
    \/ Tick

SpecPath == Init /\ [][NextPath]_vars

(***************************************************************************)
(* The claims.  Their conditions are written out here from the program's   *)
(* variables and call logs, not through the operators of the model above.  *)
(***************************************************************************)
\* invocation p calls authorizeB2 in this step
CallsAuthorize(p) ==
    /\ pc[p] = "idle"
    /\ pc'[p] # "idle"
    /\ req'[p].action = "prepare"
    /\ req'[p].body.defined

\* the authorize calls invocation p has made
AuthorizeCallsOf(p) == {k \in DOMAIN authCalls : authCalls[k].by = p}

\* C1: an invocation that calls authorizeB2 while an authorization is cached
\* and the clock is before the recorded expiry takes the cached authorization
\* as it is and makes no authorize call, and leaves the cache alone; so every
\* authorize call is made while the cache is empty or expired, and none falls
\* into the 23 hours after the cached authorization was stored.
C1_CachedAuthorizationReused ==
    [][ /\ \A p \in Inv :
            (CallsAuthorize(p) /\ b2Auth # 0 /\ now < b2AuthExpiry)
                => /\ authCalls' = authCalls
                   /\ auth'[p] = b2Auth
                   /\ b2Auth' = b2Auth
                   /\ b2AuthExpiry' = b2AuthExpiry
        /\ Len(authCalls') > Len(authCalls)
            => \/ b2Auth = 0
               \/ now >= authCalls[b2Auth].storedAt + 23 ]_vars

\* C1 witness: the second invocation ran after the first had stored its
\* authorization, within the 23 hours, and got that authorization with no
\* further authorize call.
C1_Witness ==
    /\ Len(authCalls) = 1
    /\ authCalls[1].by = 1
    /\ auth[1] = 1
    /\ auth[2] = 1
    /\ res[1].status = 200
    /\ res[2].status = 200
    /\ plan[2].timestamp > authCalls[1].storedAt

\* C2 as claimed: no empty-or-expired episode of the cache sees two authorize
\* calls (calls that failed are left out of the count).
C2_OneAuthorizeCallPerEpisode ==
    \A j, k \in DOMAIN authCalls :
        (/\ j # k
         /\ authCalls[j].status # "failed"
         /\ authCalls[k].status # "failed")
            => authCalls[j].episode # authCalls[k].episode

\* C2 as amended: an invocation that calls authorizeB2 while the cache is
\* empty or expired makes exactly one authorize call of its own and waits for
\* it, and no invocation ever makes a second one.
C2_OneAuthorizeCallPerInvocation ==
    [][ \A p \in Inv :
            /\ (CallsAuthorize(p) /\ (b2Auth = 0 \/ now >= b2AuthExpiry))
                => /\ Len(authCalls') = Len(authCalls) + 1
                   /\ authCalls'[Len(authCalls')].by = p
                   /\ authCalls'[Len(authCalls')].status = "pending"
                   /\ SubSeq(authCalls', 1, Len(authCalls)) = authCalls
                   /\ pc'[p] = "awaitAuthorize"
            /\ Cardinality({k \in DOMAIN authCalls' : authCalls'[k].by = p}) <= 1
      ]_vars

\* C2 witness: two invocations wait for their own authorize calls at once,
\* both made while the cache was empty.
C2_Witness ==
    /\ pc[1] = "awaitAuthorize"
    /\ pc[2] = "awaitAuthorize"
    /\ Len(authCalls) = 2
    /\ b2Auth = 0

\* the sgMail.send calls invocation p has made
MailsOf(p) == {k \in DOMAIN mails : mails[k].by = p}

\* C3: a complete invocation hands at most one message to sgMail.send; when it
\* has ended, either that one send succeeded and the response is 200 with
\* success true, or no send succeeded and the response is 500; a send that
\* succeeded belongs to an invocation that has ended with 200.
C3_CompleteSendsOneEmailOrFails ==
    \A p \in Inv :
        req[p].action = "complete" =>
            /\ Cardinality(MailsOf(p)) <= 1
            /\ pc[p] = "done" =>
                \/ /\ res[p].status = 200
                   /\ res[p].body.success = TRUE
                   /\ Cardinality({k \in MailsOf(p) : mails[k].status = "ok"}) = 1
                \/ /\ res[p].status = 500
                   /\ \A k \in MailsOf(p) : mails[k].status = "failed"
            /\ (\E k \in MailsOf(p) : mails[k].status = "ok") =>
                /\ pc[p] = "done"
                /\ res[p].status = 200

\* C3 witness: one complete has ended with 200 after its send succeeded,
\* another with 500 after its send failed.
C3_Witness ==
    \E p, q \in Inv :
        /\ req[p].action = "complete" /\ req[q].action = "complete"
        /\ pc[p] = "done" /\ pc[q] = "done"
        /\ res[p].status = 200
        /\ \E k \in MailsOf(p) : mails[k].status = "ok"
        /\ res[q].status = 500
        /\ \E k \in MailsOf(q) : mails[k].status = "failed"

\* C4: an invocation whose action is neither 'prepare' nor 'complete' ends in
\* the step that starts it, with status 400 and the error 'Invalid action';
\* that step makes no authorize call, no get-upload-URL call and no send, and
\* leaves the authorization cache and the review data as they were.
C4_InvalidActionTouchesNothing ==
    [][ \A p \in Inv :
            (/\ pc[p] = "idle"
             /\ pc'[p] # "idle"
             /\ req'[p].action \notin {"prepare", "complete"})
                => /\ pc'[p] = "done"
                   /\ res'[p] = [status |-> 400, body |-> [error |-> "Invalid action"]]
                   /\ authCalls' = authCalls
                   /\ urlCalls' = urlCalls
                   /\ mails' = mails
                   /\ b2Auth' = b2Auth
                   /\ b2AuthExpiry' = b2AuthExpiry
                   /\ reviewData' = reviewData ]_vars

\* C4 witness: an invalid action was answered with 400 while an authorization
\* was cached.
C4_Witness ==
    /\ req[2].action = "review"
    /\ pc[2] = "done"
    /\ res[2].status = 400
    /\ b2Auth # 0
    /\ b2AuthExpiry > now

UrlCallsOf(p) == {k \in DOMAIN urlCalls : urlCalls[k].by = p}

\* a prepare request lacks something its handler reads through a method
LacksRequired(body) ==
    \/ ~body.defined
    \/ ~body.metadata.defined
    \/ /\ body.metadata.uploadType = <<"r", "a", "w">>
       /\ <<"undefined">> \in {body.metadata.editor, body.metadata.clientName}
    \/ /\ body.metadata.uploadType # <<"r", "a", "w">>
       /\ body.metadata.projectName = <<"undefined">>

\* C6: a prepare invocation that has ended answered 200 or 500.  With 200 it
\* holds an authorization the provider issued and the process stored, its one
\* get-upload-URL call carried that authorization's token and succeeded, and
\* uploadUrl and authToken are that call's answer, beside the planned fileId
\* and filePath.  With 500 there is an error message, and its authorize call
\* failed, or its get-upload-URL call failed, or the request lacks something.
C6_PrepareAnswers ==
    \A p \in Inv :
        (req[p].action = "prepare" /\ pc[p] = "done") =>
            \/ /\ res[p].status = 200
               /\ auth[p] \in DOMAIN authCalls
               /\ authCalls[auth[p]].status = "stored"
               /\ ~LacksRequired(req[p].body)
               /\ Cardinality(UrlCallsOf(p)) = 1
               /\ \A k \in UrlCallsOf(p) :
                    /\ urlCalls[k].status = "ok"
                    /\ urlCalls[k].token = <<"accountToken", ToString(auth[p])>>
                    /\ urlCalls[k].apiUrl = <<"apiUrl", ToString(auth[p])>>
                    /\ res[p].body.uploadUrl = <<"uploadUrl", ToString(k)>>
                    /\ res[p].body.authToken = <<"uploadToken", ToString(k)>>
               /\ res[p].body.fileId = plan[p].fileId
               /\ res[p].body.filePath = plan[p].filePath
            \/ /\ res[p].status = 500
               /\ res[p].body.error # ""
               /\ \/ \E k \in AuthorizeCallsOf(p) : authCalls[k].status = "failed"
                  \/ \E k \in UrlCallsOf(p) : urlCalls[k].status = "failed"
                  \/ LacksRequired(req[p].body)

\* C6 witness: one prepare answered 200 with an authorization another
\* invocation's call had fetched, and that other one ended with 500.
C6_Witness ==
    \E p, q \in Inv :
        /\ p # q
        /\ req[p].action = "prepare" /\ req[q].action = "prepare"
        /\ pc[p] = "done" /\ pc[q] = "done"
        /\ res[p].status = 200
        /\ authCalls[auth[p]].by = q
        /\ res[q].status = 500

\* C7 as claimed: whenever an invocation has made its get-upload-URL call, the
\* authorization it got from authorizeB2 was, at that moment, less than 24
\* hours past its issuance.
C7_AuthorizationValidWhenReturned ==
    \A p \in Inv :
        UrlCallsOf(p) # {} =>
            plan[p].timestamp < authCalls[auth[p]].issuedAt + 24

\* C7 as amended: the same, for the authorizations whose answer was stored
\* within one hour of their issuance (the margin between the 23 hours of the
\* cache and the 24 hours of the provider).
C7_AuthorizationValidWithinMargin ==
    \A p \in Inv :
        (/\ UrlCallsOf(p) # {}
         /\ authCalls[auth[p]].storedAt - authCalls[auth[p]].issuedAt <= 24 - 23)
            => plan[p].timestamp < authCalls[auth[p]].issuedAt + 24

\* C7 witness: an invocation used a cached authorization 23 hours after its
\* issuance, one that was stored an hour after it was issued.
C7_Witness ==
    \E p \in Inv :
        /\ UrlCallsOf(p) # {}
        /\ authCalls[auth[p]].by # p
        /\ authCalls[auth[p]].storedAt = authCalls[auth[p]].issuedAt + 1
        /\ plan[p].timestamp = authCalls[auth[p]].issuedAt + 23

\* the complete invocations that took the review path and whose send succeeded
Reviewed ==
    { p \in Inv :
        /\ req[p].action = "complete"
        /\ req[p].body.metadata.uploadType # <<"r", "a", "w">>
        /\ \E k \in MailsOf(p) : mails[k].status = "ok" }

\* C9: the review data holds exactly one entry for each non-raw complete whose
\* send succeeded, under the review id made in that call, with that call's
\* metadata and files; nothing else ever adds an entry and none goes away.
C9_ReviewDataIsTheReviewedCompletes ==
    /\ DOMAIN reviewData = {rid[p] : p \in Reviewed}
    /\ Cardinality(DOMAIN reviewData) = Cardinality(Reviewed)
    /\ \A p \in Reviewed :
        /\ reviewData[rid[p]].metadata = req[p].body.metadata
        /\ reviewData[rid[p]].files = req[p].body.files

\* C9 witness: two reviews are stored, and they differ.
C9_Witness ==
    /\ Cardinality(DOMAIN reviewData) = 2
    /\ \E i, j \in DOMAIN reviewData : reviewData[i].metadata # reviewData[j].metadata

\* C10: b2Auth and b2AuthExpiry change only in a step that stores the answer
\* of an authorize call, and then to that call's authorization and to the
\* clock plus 23 hours; a step in which an authorize call fails changes
\* neither; and the cache is always either empty with expiry 0, or an
\* authorization with the expiry of its own storing, which is not 0.
C10_CacheChangesAsAWhole ==
    [][ /\ (b2Auth' # b2Auth \/ b2AuthExpiry' # b2AuthExpiry) =>
              \E k \in DOMAIN authCalls :
                  /\ authCalls[k].status = "issued"
                  /\ authCalls'[k].status = "stored"
                  /\ b2Auth' = k
                  /\ b2AuthExpiry' = now + 23
        /\ (\E k \in DOMAIN authCalls :
                authCalls[k].status # "failed" /\ authCalls'[k].status = "failed")
              => (b2Auth' = b2Auth /\ b2AuthExpiry' = b2AuthExpiry)
        /\ \/ b2Auth' = 0 /\ b2AuthExpiry' = 0
           \/ /\ b2Auth' \in DOMAIN authCalls'
              /\ authCalls'[b2Auth'].status = "stored"
              /\ b2AuthExpiry' = authCalls'[b2Auth'].storedAt + 23
              /\ b2AuthExpiry' # 0 ]_vars

\* C10 witness: a later authorization has replaced an earlier one, at a later
\* hour, and carries its own expiry.
C10_Witness ==
    /\ Len(authCalls) = 2
    /\ authCalls[1].status = "stored"
    /\ authCalls[2].status = "stored"
    /\ b2Auth = 2
    /\ authCalls[2].storedAt > authCalls[1].storedAt
    /\ b2AuthExpiry = authCalls[2].storedAt + 23

\* the part of an address before its first '@': its longest prefix without one
LocalPart(e) ==
    LET n == CHOOSE i \in 0 .. Len(e) :
                /\ \A j \in 1 .. i : e[j] # "@"
                /\ i = Len(e) \/ e[i + 1] = "@"
    IN  SubSeq(e, 1, n)

\* a text with every run of whitespace turned into one underscore: the first
\* character of a run becomes '_', the rest of the run goes, all else stays
Sanitized(t) ==
    LET blank(i) == t[i] \in {" ", "\t"}
        kept == {i \in 1 .. Len(t) : ~blank(i) \/ i = 1 \/ ~blank(i - 1)}
        nth(j) == CHOOSE i \in kept : Cardinality({x \in kept : x <= i}) = j
    IN  [j \in 1 .. Cardinality(kept) |-> IF blank(nth(j)) THEN "_" ELSE t[nth(j)]]

\* C8: once prepare has its authorization, it throws exactly when the request
\* lacks a field of its own variant (editor or clientName for 'raw',
\* projectName otherwise), whatever the other variant's fields are; else the
\* planned path is raw_uploads/<local part of editor>/<ts>_<clientName,
\* sanitized>/<fileName> for 'raw' and edited_uploads/review/<ts>_<projectName,
\* sanitized>/<fileName> for every other uploadType, with <ts> the very
\* timestamp text that fileId starts with, and the response carries that path.
C8_PathFollowsUploadType ==
    \A p \in Inv :
        LET m == req[p].body.metadata
            raw == m.uploadType = <<"r", "a", "w">>
            lacks == IF raw
                     THEN <<"undefined">> \in {m.editor, m.clientName}
                     ELSE m.projectName = <<"undefined">>
        IN  (req[p].action = "prepare" /\ m.defined /\ auth[p] # 0) =>
                IF lacks
                THEN /\ pc[p] = "done"
                     /\ res[p].status = 500
                     /\ plan[p].filePath = << >>
                ELSE /\ Len(plan[p].fileId) = 3
                     /\ plan[p].fileId[1] = ToString(plan[p].timestamp)
                     /\ plan[p].filePath =
                          IF raw
                          THEN <<"raw_uploads/">> \o LocalPart(m.editor) \o <<"/">>
                               \o <<plan[p].fileId[1], "_">> \o Sanitized(m.clientName)
                               \o <<"/">> \o req[p].body.fileName
                          ELSE <<"edited_uploads/review/">>
                               \o <<plan[p].fileId[1], "_">> \o Sanitized(m.projectName)
                               \o <<"/">> \o req[p].body.fileName
                     /\ res[p].status = 200 => res[p].body.filePath = plan[p].filePath

\* C8 witness: a raw upload without projectName whose editor has two '@' and
\* whose clientName has a run of two whitespace characters got its path.
C8_Witness ==
    /\ req[1].body.metadata.uploadType = RAW
    /\ req[1].body.metadata.projectName = Undefined
    /\ req[1].body.metadata.editor = <<"a", "@", "@">>
    /\ req[1].body.metadata.clientName = <<"a", " ", "\t">>
    /\ res[1].status = 200
    /\ res[1].body.filePath =
         <<"raw_uploads/", "a", "/", ToString(plan[1].timestamp), "_", "a", "_", "/">>
         \o Clip

====
